---- MODULE Spec2Model ----
(***************************************************************************)
(* StructuredAgent.run (src/src/agent/index.ts, lines 272-341): the        *)
(* generate -> validate -> repair loop of one run call, together with the  *)
(* schema validator it uses (src/src/schemas/validator.ts) and the         *)
(* backends it awaits.  Every await of a backend call is a position of the *)
(* run (pc); the backend's answer, a resolved text or a rejection, is the  *)
(* input of the next step.                                                 *)
(***************************************************************************)
EXTENDS Integers, Sequences, FiniteSets, TLC

VARIABLES
  config,            \* AgentConfig given to the constructor
  inputJson,         \* first argument of run
  ref,               \* second argument of run
  pc,                \* position of the run call
  i,                 \* loop counter of the review loop
  currentJson,       \* let currentJson
  validationResult,  \* let validationResult
  history,           \* const history
  metadata,          \* const metadata
  calls,             \* requests passed to ILLMService.complete, in order
  replies,           \* what each complete call resolved or rejected with
  result,            \* the AgentResult run resolved with
  error,             \* the error run rejected with
  validatorErrors,   \* the errors property of the two compiled validators
  self,              \* which of two run calls on one agent is executing
  parked,            \* the locals of the run call suspended at its await
  ctor,              \* a call of new StructuredAgent(config)
  adapter            \* a call of a backend adapter's complete

\* The arguments and locals of one run call.
runVars == <<inputJson, ref, pc, i, currentJson, validationResult,
             history, metadata, calls, replies, result, error>>

\* What the steps of a single run call leave alone.
others == <<self, parked, ctor, adapter>>

vars == <<config, validatorErrors, runVars, others>>

\* Largest retry budget (config.maxIterations) explored.
MaxBudget == 3

\* The value of `maxIterations ?? 1` when the option is not configured.
DefaultMaxIterations == 1

Undefined == "undefined"

----------------------------------------------------------------------------
(* JSON values.  A value is a string or an object with one property whose  *)
(* value is a string or a number; all values share one record shape.       *)

JString(s) == [type |-> "string", key |-> "", vtype |-> "", text |-> s]

JObject(k, vt, s) == [type |-> "object", key |-> k, vtype |-> vt, text |-> s]

\* The value of a variable of run that has not been assigned yet.
JUndefined == [type |-> "undefined", key |-> "", vtype |-> "", text |-> ""]

\* Texts a backend may answer with.
ValidText == "{\"result\":\"fixed\"}"
InvalidText == "{\"result\":123}"
MalformedText == "{ result: "
QuotedText == "\"recovered\""

Texts == {ValidText, InvalidText, MalformedText, QuotedText}

\* JSON.parse: the parsed value, or a SyntaxError.
JSONparse(text) ==
  CASE text = ValidText   -> [threw |-> FALSE, value |-> JObject("result", "string", "fixed")]
    [] text = InvalidText -> [threw |-> FALSE, value |-> JObject("result", "number", "123")]
    [] text = QuotedText  -> [threw |-> FALSE, value |-> JString("recovered")]
    [] OTHER              -> [threw |-> TRUE, value |-> JString("")]

parseJsonDropsText(text) ==
  IF JSONparse(text).threw THEN JString("") ELSE JSONparse(text).value

\* private parseJson(text): try { return JSON.parse(text) } catch { return text }
parseJson(text) ==
  IF JSONparse(text).threw THEN JString(text) ELSE JSONparse(text).value

----------------------------------------------------------------------------
(* Schemas and the schema validator.                                       *)

\* { type: "object", properties: { k: { type: "string" } }, required: [k] }
ObjectSchema(k) == [kind |-> "object", key |-> k]

\* { type: "string" }
StringSchema == [kind |-> "string", key |-> ""]

\* An object schema with a user-defined check that throws on data that is
\* not an object.
FaultySchema(k) == [kind |-> "faulty", key |-> k]

Violation(path, msg) == [instancePath |-> path, message |-> msg]

\* validator.errors after validator(data) returned false; <<>> when it
\* returned true.
Violations(schema, data) ==
  IF schema.kind = "string"
  THEN IF data.type = "string" THEN <<>> ELSE <<Violation("", "must be string")>>
  ELSE IF data.type # "object"
       THEN <<Violation("", "must be object")>>
       ELSE IF data.key # schema.key
            THEN <<Violation("", "must have required property '" \o schema.key \o "'")>>
            ELSE IF data.vtype # "string"
                 THEN <<Violation("/" \o schema.key, "must be string")>>
                 ELSE <<>>

\* Whether calling the compiled validator on data throws.
ValidatorThrows(schema, data) == schema.kind = "faulty" /\ data.type # "object"

SchemaValidationError(errors) ==
  [name |-> "SchemaValidationError", message |-> "Data validation failed",
   errors |-> errors]

ValidatorFault == [name |-> "TypeError", message |-> "Cannot read properties"]

validateDropsViolations(schema, data) ==
  IF ValidatorThrows(schema, data)
  THEN [threw |-> TRUE, error |-> ValidatorFault]
  ELSE IF Violations(schema, data) # <<>>
       THEN [threw |-> TRUE, error |-> SchemaValidationError(<<>>)]
       ELSE [threw |-> FALSE, error |-> Undefined]

validateAcceptsAll(schema, data) == [threw |-> FALSE, error |-> Undefined]

\* SchemaValidator.validate: returns, or throws SchemaValidationError.
validate(schema, data) ==
  IF ValidatorThrows(schema, data)
  THEN [threw |-> TRUE, error |-> ValidatorFault]
  ELSE IF Violations(schema, data) # <<>>
       THEN [threw |-> TRUE, error |-> SchemaValidationError(Violations(schema, data))]
       ELSE [threw |-> FALSE, error |-> Undefined]

\* validator.errors after validator(data): the violations, none (null) when
\* the data is valid; a validator that throws leaves the property as it was.
errorsAfter(schema, data, before) ==
  IF ValidatorThrows(schema, data) THEN before ELSE Violations(schema, data)

\* The errors properties of this.inputValidator and this.outputValidator
\* before any validation.
NoValidatorErrors == [inputValidator |-> <<>>, outputValidator |-> <<>>]

RECURSIVE errorsText(_)
\* ajv.errorsText(errors): "data<path> <message>" joined by ", ".
errorsText(errors) ==
  IF errors = <<>> THEN "No errors"
  ELSE LET first == "data" \o Head(errors).instancePath \o " " \o Head(errors).message
       IN IF Len(errors) = 1 THEN first ELSE first \o ", " \o errorsText(Tail(errors))

\* SchemaValidator.formatErrors
formatErrors(errors) == errorsText(errors)

validateOutputTrustsFault(schema, data) ==
  LET r == validate(schema, data)
  IN IF ~r.threw THEN [valid |-> TRUE]
     ELSE IF r.error.name = "SchemaValidationError"
          THEN [valid |-> FALSE, errors |-> <<formatErrors(r.error.errors)>>]
          ELSE [valid |-> TRUE]

\* private validateOutput(data)
validateOutput(schema, data) ==
  LET r == validate(schema, data)
  IN IF ~r.threw
     THEN [valid |-> TRUE]
     ELSE IF r.error.name = "SchemaValidationError"
          THEN [valid |-> FALSE, errors |-> <<formatErrors(r.error.errors)>>]
          ELSE [valid |-> FALSE, errors |-> <<"Unknown validation error">>]

----------------------------------------------------------------------------
(* Errors.                                                                 *)

\* What a backend's complete may reject with.
LLMExecutionError ==
  [name |-> "LLMExecutionError", message |-> "Failed to execute request"]

OtherError == [name |-> "Error", message |-> "socket hang up"]

BackendErrors == {LLMExecutionError, OtherError}

MaxIterationsExceededError(budget, attempts) ==
  [name |-> "MaxIterationsExceededError",
   message |-> "Failed to generate valid JSON after " \o ToString(budget)
               \o " review iterations",
   attempts |-> attempts]

RethrowsEveryError(e) == TRUE

RethrowsNoError(e) == FALSE

\* error instanceof LLMExecutionError, the test of the loop's catch block
IsLLMExecutionError(e) == e.name = "LLMExecutionError"

----------------------------------------------------------------------------
(* Configuration.                                                          *)

Generator ==
  [llmService |-> "generatorService", model |-> "gpt-test",
   config |-> "generatorConfig"]

\* config.reviewer, when supplied
Reviewer ==
  [set |-> TRUE, llmService |-> "reviewerService", model |-> "gpt-reviewer",
   config |-> "reviewerConfig"]

\* config.reviewer left out
NoReviewer == [set |-> FALSE, llmService |-> "", model |-> "", config |-> ""]

NotSet == [set |-> FALSE, value |-> 0]

Set(n) == [set |-> TRUE, value |-> n]

\* config.maxIterations: absent, or any number (it is not validated).
Budgets == {NotSet} \cup {Set(n) : n \in (-1)..MaxBudget}

Configs ==
  [generator : {Generator},
   reviewer : {NoReviewer, Reviewer},
   inputSchema : {ObjectSchema("input"), FaultySchema("input")},
   outputSchema : {ObjectSchema("result"), StringSchema, FaultySchema("result")},
   maxIterations : Budgets]

Inputs == {JObject("input", "string", "test"), JObject("input", "number", "7"),
           JString("test")}

Refs == {Undefined, "test-ref-123"}

maxIterationsOrDefault(option) ==
  IF option.set /\ option.value # 0 THEN option.value ELSE DefaultMaxIterations

\* const maxIterations = this.config.maxIterations ?? 1
maxIterationsOf(option) == IF option.set THEN option.value ELSE DefaultMaxIterations

maxIterations == maxIterationsOf(config.maxIterations)

----------------------------------------------------------------------------
(* Requests and responses of ILLMService.complete.                         *)

\* generateInitialResponse: the request sent to this.generatorService
GenerationRequest(cfg, input) ==
  [service |-> cfg.generator.llmService, model |-> cfg.generator.model,
   config |-> cfg.generator.config, kind |-> "generation", input |-> input]

ReviewerAlwaysGenerator(cfg) == cfg.generator

\* const reviewerConfig = this.config.reviewer || this.config.generator
reviewerConfig(cfg) == IF cfg.reviewer.set THEN cfg.reviewer ELSE cfg.generator

\* const reviewerService = this.reviewerService || this.generatorService,
\* where the constructor sets this.reviewerService only if (config.reviewer)
reviewerService(cfg) ==
  IF cfg.reviewer.set THEN cfg.reviewer.llmService ELSE cfg.generator.llmService

ReviewRequestOfTheInput(cfg, invalidJson, errors, originalInput) ==
  [service |-> reviewerService(cfg), model |-> reviewerConfig(cfg).model,
   config |-> reviewerConfig(cfg).config,
   kind |-> "review", originalInput |-> originalInput,
   invalidJson |-> originalInput, errors |-> errors]

\* reviewResponse(invalidJson, errors, originalInput): the request sent
ReviewRequest(cfg, invalidJson, errors, originalInput) ==
  [service |-> reviewerService(cfg), model |-> reviewerConfig(cfg).model,
   config |-> reviewerConfig(cfg).config,
   kind |-> "review", originalInput |-> originalInput,
   invalidJson |-> invalidJson, errors |-> errors]

\* The provenance a backend returns with its text.
MetaOf(request) == [provider |-> request.service, model |-> request.model]

Resolved(request, text) ==
  [kind |-> "resolved", data |-> text, meta |-> MetaOf(request)]

Rejected(e) == [kind |-> "rejected", error |-> e]

----------------------------------------------------------------------------
(* Pieces of run.                                                          *)

StepLabelFromZero(iv) == "review-" \o ToString(iv)

\* `review-${i + 1}`
StepLabel(iv) == "review-" \o ToString(iv + 1)

HistoryEntryUnlabelled(step, payload) == [step |-> "generation", result |-> payload]

\* history.push({ step, result: currentJson })
HistoryEntry(step, payload) == [step |-> step, result |-> payload]

MetadataEntryAlwaysValid(meta, step, validation) ==
  [provider |-> meta.provider, model |-> meta.model, step |-> step,
   validation |-> [valid |-> TRUE]]

\* metadata.push({ ...response.meta, step, validation: validationResult })
MetadataEntry(meta, step, validation) ==
  [provider |-> meta.provider, model |-> meta.model, step |-> step,
   validation |-> validation]

ReturnsAnything(validation) == TRUE

ReturnsNothing(validation) == FALSE

\* if (validationResult.valid) return { output, metadata, ref }
ShouldReturn(validation) == validation.valid

LoopConditionOneMore(iv, budget) == iv < budget + 1

LoopConditionInclusive(iv, budget) == iv <= budget

\* for (let i = 0; i < maxIterations; i++)
LoopCondition(iv, budget) == iv < budget

\* validationResult.errors || []
ErrorsOf(validation) == IF validation.valid THEN <<>> ELSE validation.errors

AgentResultWithoutRef(output, meta, r) ==
  [output |-> output, metadata |-> meta, ref |-> "undefined"]

\* return { output: currentJson, metadata, ref }
AgentResult(output, meta, r) == [output |-> output, metadata |-> meta, ref |-> r]

\* run has not resolved, has not rejected, has not validated anything yet.
NoResult == AgentResult(JUndefined, <<>>, Undefined)

NoError == [name |-> "", message |-> ""]

NoValidation == [valid |-> FALSE, errors |-> <<>>]

LoopHeadSpins(iv, json, validation, hist) ==
  /\ pc' = "looping"
  /\ i' = iv
  /\ calls' = calls
  /\ error' = error

LoopHeadIssuesTwo(iv, json, validation, hist) ==
  /\ pc' = "awaitReview"
  /\ i' = iv
  /\ calls' = Append(Append(calls, ReviewRequest(config, json, ErrorsOf(validation), inputJson)),
                     ReviewRequest(config, json, ErrorsOf(validation), inputJson))
  /\ error' = error

\* Head of the for loop with counter iv: either the review call of round iv
\* is issued and awaited, or the loop is over and run throws.
LoopHead(iv, json, validation, hist) ==
  IF LoopCondition(iv, maxIterations)
  THEN /\ pc' = "awaitReview"
       /\ i' = iv
       /\ calls' = Append(calls, ReviewRequest(config, json, ErrorsOf(validation), inputJson))
       /\ error' = error
  ELSE /\ pc' = "threw"
       /\ i' = iv
       /\ calls' = calls
       /\ error' = MaxIterationsExceededError(maxIterations, hist)

----------------------------------------------------------------------------
(* Values of the variables that a specification does not use.              *)

\* The locals of a run call that has not started.
NoLocals ==
  [inputJson |-> JUndefined, ref |-> Undefined, pc |-> "idle", i |-> 0,
   currentJson |-> JUndefined, validationResult |-> NoValidation,
   history |-> <<>>, metadata |-> <<>>, calls |-> <<>>, replies |-> <<>>,
   result |-> NoResult, error |-> NoError]

NoConstruction == [pc |-> "none"]

NoAdapterCall == [pc |-> "none"]

----------------------------------------------------------------------------
(* The run call.                                                           *)

\* No run call has been made.
RunIdle ==
  /\ inputJson = JUndefined
  /\ ref = Undefined
  /\ pc = "idle"
  /\ i = 0
  /\ currentJson = JUndefined
  /\ validationResult = NoValidation
  /\ history = <<>>
  /\ metadata = <<>>
  /\ calls = <<>>
  /\ replies = <<>>
  /\ result = NoResult
  /\ error = NoError
  /\ validatorErrors = NoValidatorErrors

\* An agent constructed from any configuration; one run call is followed.
Init ==
  /\ config \in Configs
  /\ RunIdle
  /\ self = 1
  /\ parked = NoLocals
  /\ ctor = NoConstruction
  /\ adapter = NoAdapterCall

\* run(input, r) up to its first await (lines 272-287).
Run(input, r) ==
  /\ pc = "idle"
  /\ inputJson' = input
  /\ ref' = r
  /\ LET v == validate(config.inputSchema, input)
     IN IF v.threw
        THEN /\ pc' = "threw"
             /\ error' = v.error
             /\ calls' = calls
        ELSE /\ pc' = "awaitGeneration"
             /\ error' = error
             /\ calls' = Append(calls, GenerationRequest(config, input))
  /\ validatorErrors' =
       [validatorErrors EXCEPT
          !.inputValidator = errorsAfter(config.inputSchema, input, @)]
  /\ UNCHANGED <<config, i, currentJson, validationResult, history, metadata,
                 replies, result>>
  /\ UNCHANGED others

\* The generation call resolves with text: lines 289-307.
GenerationResolved(text) ==
  /\ pc = "awaitGeneration"
  /\ LET response == Resolved(calls[Len(calls)], text)
         json == parseJson(response.data)
         validation == validateOutput(config.outputSchema, json)
         hist == Append(history, HistoryEntry("generation", json))
         meta == Append(metadata, MetadataEntry(response.meta, "generation", validation))
     IN /\ replies' = Append(replies, response)
        /\ currentJson' = json
        /\ validationResult' = validation
        /\ history' = hist
        /\ metadata' = meta
        /\ validatorErrors' =
             [validatorErrors EXCEPT
                !.outputValidator = errorsAfter(config.outputSchema, json, @)]
        /\ IF ShouldReturn(validation)
           THEN /\ pc' = "returned"
                /\ result' = AgentResult(json, meta, ref)
                /\ UNCHANGED <<i, calls, error>>
           ELSE /\ LoopHead(0, json, validation, hist)
                /\ result' = result
  /\ UNCHANGED <<config, inputJson, ref>>
  /\ UNCHANGED others

\* The generation call rejects: the await of line 287 is outside any try.
GenerationRejected(e) ==
  /\ pc = "awaitGeneration"
  /\ replies' = Append(replies, Rejected(e))
  /\ pc' = "threw"
  /\ error' = e
  /\ UNCHANGED <<config, validatorErrors, inputJson, ref, i, currentJson,
                 validationResult, history, metadata, calls, result>>
  /\ UNCHANGED others

\* The review call of round i resolves with text: lines 314-329, then i++.
ReviewResolved(text) ==
  /\ pc = "awaitReview"
  /\ LET response == Resolved(calls[Len(calls)], text)
         json == parseJson(response.data)
         validation == validateOutput(config.outputSchema, json)
         hist == Append(history, HistoryEntry(StepLabel(i), json))
         meta == Append(metadata, MetadataEntry(response.meta, StepLabel(i), validation))
     IN /\ replies' = Append(replies, response)
        /\ currentJson' = json
        /\ validationResult' = validation
        /\ history' = hist
        /\ metadata' = meta
        /\ validatorErrors' =
             [validatorErrors EXCEPT
                !.outputValidator = errorsAfter(config.outputSchema, json, @)]
        /\ IF ShouldReturn(validation)
           THEN /\ pc' = "returned"
                /\ result' = AgentResult(json, meta, ref)
                /\ UNCHANGED <<i, calls, error>>
           ELSE /\ LoopHead(i + 1, json, validation, hist)
                /\ result' = result
  /\ UNCHANGED <<config, inputJson, ref>>
  /\ UNCHANGED others

\* The review call of round i rejects: the catch block of lines 330-334,
\* then i++.
ReviewRejected(e) ==
  /\ pc = "awaitReview"
  /\ replies' = Append(replies, Rejected(e))
  /\ IF IsLLMExecutionError(e)
     THEN /\ pc' = "threw"
          /\ error' = e
          /\ UNCHANGED <<i, calls>>
     ELSE LoopHead(i + 1, currentJson, validationResult, history)
  /\ UNCHANGED <<config, validatorErrors, inputJson, ref, currentJson,
                 validationResult, history, metadata, result>>
  /\ UNCHANGED others

Next ==
  \/ \E input \in Inputs, r \in Refs : Run(input, r)
  \/ \E text \in Texts : GenerationResolved(text)
  \/ \E e \in BackendErrors : GenerationRejected(e)
  \/ \E text \in Texts : ReviewResolved(text)
  \/ \E e \in BackendErrors : ReviewRejected(e)

Spec == Init /\ [][Next]_vars

----------------------------------------------------------------------------
(* Vocabulary of the properties.                                           *)

\* The data satisfies the schema: the compiled validator returns true.
Accepts(schema, data) ==
  ~ValidatorThrows(schema, data) /\ Violations(schema, data) = <<>>

\* The compiled validator returns false on the data.
Rejects(schema, data) ==
  ~ValidatorThrows(schema, data) /\ Violations(schema, data) # <<>>

Started == pc # "idle"

InputSatisfiesSchema == Started /\ Accepts(config.inputSchema, inputJson)

\* The label of the step that the j-th backend call of a run serves.
LabelOfCall(j) == IF j = 1 THEN "generation" ELSE "review-" \o ToString(j - 1)

IsResolved(j) == replies[j].kind = "resolved"

IsRejected(j) == replies[j].kind = "rejected"

\* The payload the j-th backend call answered with.
PayloadOf(j) ==
  IF JSONparse(replies[j].data).threw
  THEN JString(replies[j].data)
  ELSE JSONparse(replies[j].data).value

\* The j-th call answered with a payload that fails the output schema.
FailedValidation(j) ==
  IsResolved(j) /\ ~Accepts(config.outputSchema, PayloadOf(j))

PassedValidation(j) ==
  IsResolved(j) /\ Accepts(config.outputSchema, PayloadOf(j))

\* Indices of the backend calls that answered with a text, in order.
ResolvedCalls ==
  SelectSeq([j \in 1..Len(replies) |-> j], LAMBDA j : IsResolved(j))

RaisedMaxIterations ==
  pc = "threw" /\ error.name = "MaxIterationsExceededError"

RaisedLLMExecution == pc = "threw" /\ error.name = "LLMExecutionError"

----------------------------------------------------------------------------
\* C1: whenever run returns, result.output satisfies the output schema; it
\* is the payload of the last recorded attempt, that attempt's validation
\* outcome is valid, and the outcome is the validation of that very payload.
C1_OutputIsValidated ==
  pc = "returned" =>
    /\ Accepts(config.outputSchema, result.output)
    /\ history # <<>>
    /\ result.output = history[Len(history)].result
    /\ result.output = currentJson
    /\ result.metadata = metadata
    /\ Len(metadata) = Len(history)
    /\ metadata[Len(metadata)].validation.valid
    /\ validationResult.valid
    /\ IsResolved(Len(replies))
    /\ result.output = PayloadOf(Len(replies))

\* run returned after two review rounds, one of which threw and was retried.
C1_Witness ==
  /\ pc = "returned"
  /\ Len(calls) = 3
  /\ Len(metadata) = 2

\* C2 as claimed: for an input that satisfies the input schema, the only
\* errors run raises are MaxIterationsExceeded and LLMExecution.
C2_OnlyTwoErrorKinds ==
  (pc = "threw" /\ InputSatisfiesSchema) =>
    error.name \in {"MaxIterationsExceededError", "LLMExecutionError"}

\* C2, amended: for an input that satisfies the input schema, run is
\* awaiting a backend call, has returned an AgentResult, or has raised
\* MaxIterationsExceeded, LLMExecution, or the error the generation call
\* itself rejected with; an error of another kind thrown by a review call
\* never escapes.
C2_OutcomesOfRun ==
  InputSatisfiesSchema =>
    /\ pc \in {"awaitGeneration", "awaitReview", "returned", "threw"}
    /\ pc = "returned" => result = AgentResult(currentJson, metadata, ref)
    /\ pc = "threw" =>
         \/ error.name \in {"MaxIterationsExceededError", "LLMExecutionError"}
         \/ /\ Len(replies) = 1
            /\ IsRejected(1)
            /\ error = replies[1].error

\* A review call rejected with an error that is not LLMExecution and run
\* went on to raise MaxIterationsExceeded.
C2_Witness ==
  /\ RaisedMaxIterations
  /\ InputSatisfiesSchema
  /\ \E j \in 2..Len(replies) :
       IsRejected(j) /\ replies[j].error.name = "Error"

\* C3: for an input the input schema rejects, run raises the validator's
\* SchemaValidation error unchanged; no backend call is made and no attempt
\* is recorded.
C3_InvalidInputRaises ==
  (Started /\ Rejects(config.inputSchema, inputJson)) =>
    /\ pc = "threw"
    /\ error = SchemaValidationError(Violations(config.inputSchema, inputJson))
    /\ calls = <<>>
    /\ replies = <<>>
    /\ history = <<>>
    /\ metadata = <<>>

\* run was called with { input: 7 }.
C3_Witness ==
  /\ pc = "threw"
  /\ error.name = "SchemaValidationError"
  /\ inputJson = JObject("input", "number", "7")

\* C4: if the payload of the generation satisfies the output schema, run
\* returns after exactly one backend call, made to the generator, and the
\* metadata has exactly one entry, labeled "generation".
C4_FirstValidShortCircuits ==
  (replies # <<>> /\ PassedValidation(1)) =>
    /\ pc = "returned"
    /\ Len(calls) = 1
    /\ Len(replies) = 1
    /\ calls[1].kind = "generation"
    /\ calls[1].service = config.generator.llmService
    /\ Len(result.metadata) = 1
    /\ result.metadata[1].step = "generation"
    /\ result.output = PayloadOf(1)

\* The generator answered {"result":"fixed"} under the object schema.
C4_Witness ==
  /\ pc = "returned"
  /\ Len(calls) = 1
  /\ config.outputSchema = ObjectSchema("result")
  /\ config.reviewer.set

\* C5: if the generation and the first k-1 reviews answer payloads that
\* fail validation and the k-th review answers a valid one (1 <= k <=
\* budget), run returns that payload after exactly k+1 backend calls and the
\* metadata is generation, review-1, ..., review-k.
C5_ValidAfterKReviews ==
  \A k \in 1..(Len(replies) - 1) :
    ( /\ \A j \in 1..k : FailedValidation(j)
      /\ PassedValidation(k + 1) ) =>
        /\ k <= maxIterations
        /\ pc = "returned"
        /\ Len(calls) = k + 1
        /\ Len(replies) = k + 1
        /\ result.output = PayloadOf(k + 1)
        /\ Len(result.metadata) = k + 1
        /\ \A j \in 1..(k + 1) : result.metadata[j].step = LabelOfCall(j)
        /\ \A j \in 2..(k + 1) : calls[j].kind = "review"

\* Two reviews failed to repair the payload and the third one did.
C5_Witness ==
  /\ pc = "returned"
  /\ Len(replies) = 4
  /\ \A j \in 1..3 : FailedValidation(j)

C7_LLMExecutionIsFatal ==
  \A j \in 1..Len(replies) :
    (IsRejected(j) /\ replies[j].error.name = "LLMExecutionError") =>
      /\ pc = "threw"
      /\ error = replies[j].error
      /\ Len(calls) = j
      /\ Len(replies) = j

\* The second review call failed with an LLMExecution error.
C7_Witness ==
  /\ RaisedLLMExecution
  /\ Len(calls) = 3

\* C8 as claimed: every review call directly follows an output validation
\* that found the payload invalid, and a backend call that rejects, with
\* any error, is the last backend call of the run and its error is raised.
C8_OnlyValidationFeedsLoop ==
  /\ \A j \in 2..Len(calls) : FailedValidation(j - 1)
  /\ \A j \in 1..Len(replies) :
       IsRejected(j) =>
         /\ Len(calls) = j
         /\ pc = "threw"
         /\ error = replies[j].error

\* C9 as claimed: under every output schema, the attempt of a reply that is
\* not parseable as JSON has an invalid validation outcome.
C9_UnparseableIsInvalid ==
  \A h \in 1..Len(metadata) :
    JSONparse(replies[ResolvedCalls[h]].data).threw =>
      ~metadata[h].validation.valid

\* C9, amended: a reply that is not parseable as JSON never crashes run;
\* its raw text is, verbatim, the payload of that attempt, and the attempt
\* is invalid exactly when the output schema does not accept that string.
\* When invalid, the loop goes on as for any non-conforming payload: the
\* next review is awaited while the budget lasts, else run raises
\* MaxIterationsExceeded.  When valid, run returns the raw text.
C9_UnparseableIsAPayload ==
  /\ Len(history) = Len(ResolvedCalls)
  /\ Len(metadata) = Len(ResolvedCalls)
  /\ \A h \in 1..Len(ResolvedCalls) :
       LET j == ResolvedCalls[h]
           text == replies[j].data
       IN JSONparse(text).threw =>
            /\ history[h] = [step |-> LabelOfCall(j), result |-> JString(text)]
            /\ metadata[h].step = LabelOfCall(j)
            /\ metadata[h].validation.valid
                 = Accepts(config.outputSchema, JString(text))
            /\ (j = Len(replies) /\ metadata[h].validation.valid) =>
                 pc = "returned" /\ result.output = JString(text)
            /\ (j = Len(replies) /\ ~metadata[h].validation.valid) =>
                 IF j <= maxIterations
                 THEN pc = "awaitReview" /\ Len(calls) = j + 1
                 ELSE RaisedMaxIterations /\ Len(calls) = j

\* A review answered "{ result: " under the object schema.
C9_Witness ==
  /\ Len(history) = 2
  /\ history[2].result = JString(MalformedText)
  /\ config.outputSchema = ObjectSchema("result")
  /\ ~metadata[2].validation.valid

----------------------------------------------------------------------------
\* C11 as claimed: in every state the labels of the history and of the
\* metadata are generation, review-1, review-2, ... without gaps (the entry
\* at position j+1 is review-j), pairwise distinct, and no review label
\* exceeds the budget.
C11_LabelsWithoutGaps ==
  /\ Len(metadata) = Len(history)
  /\ \A j \in 1..Len(history) :
       /\ history[j].step = LabelOfCall(j)
       /\ metadata[j].step = LabelOfCall(j)
       /\ j - 1 <= IF maxIterations > 0 THEN maxIterations ELSE 0
  /\ \A j, k \in 1..Len(history) : j # k => history[j].step # history[k].step

\* The index of the last backend call before call j that answered a text.
LastAnswerBefore(j) ==
  CHOOSE k \in 1..(j - 1) :
    IsResolved(k) /\ \A m \in (k + 1)..(j - 1) : IsRejected(m)

\* The request of the j-th backend call, as the input of the run, the
\* configuration and the earlier answers of the backends determine it.
RequestOfCall(j) ==
  IF j = 1
  THEN [service |-> config.generator.llmService, model |-> config.generator.model,
        config |-> config.generator.config, kind |-> "generation",
        input |-> inputJson]
  ELSE LET payload == PayloadOf(LastAnswerBefore(j))
           who == IF config.reviewer.set THEN config.reviewer ELSE config.generator
       IN [service |-> who.llmService, model |-> who.model, config |-> who.config,
           kind |-> "review", originalInput |-> inputJson,
           invalidJson |-> payload,
           errors |-> validateOutput(config.outputSchema, payload).errors]

\* C12: on every success path the result carries the ref run was called
\* with (undefined when it was called without one); the requests sent to
\* the backends, the output and the metadata are determined by the input,
\* the configuration and the backends' answers, and hold no ref.
C12_RefIsEchoed ==
  /\ \A j \in 1..Len(calls) : calls[j] = RequestOfCall(j)
  /\ pc = "returned" =>
       /\ result.ref = ref
       /\ ref \in Refs
       /\ result.output = PayloadOf(Len(replies))
       /\ \A h \in 1..Len(result.metadata) :
            result.metadata[h] =
              [provider |-> calls[ResolvedCalls[h]].service,
               model |-> calls[ResolvedCalls[h]].model,
               step |-> LabelOfCall(ResolvedCalls[h]),
               validation |-> validateOutput(config.outputSchema,
                                             PayloadOf(ResolvedCalls[h]))]

\* run returned with the caller's ref after two review rounds.
C12_Witness ==
  /\ pc = "returned"
  /\ result.ref = "test-ref-123"
  /\ Len(result.metadata) = 3

\* C13 as claimed: with maxIterations not configured, a backend that always
\* answers a non-conforming payload is called 6 times (1 generation and 5
\* reviews) before run raises MaxIterationsExceeded.
C13_DefaultBudgetIsFive ==
  ( /\ ~config.maxIterations.set
    /\ RaisedMaxIterations
    /\ \A j \in 1..Len(replies) : FailedValidation(j) ) =>
      /\ Len(calls) = 6
      /\ Len(error.attempts) = 6

\* C15: the generation call goes to the generator backend with the
\* generator's model and config; every review call goes to the reviewer
\* backend with the reviewer's model and config when a reviewer is
\* configured, and to the generator's otherwise.
C15_CallsGoToTheRightBackend ==
  \A j \in 1..Len(calls) :
    IF j = 1
    THEN /\ calls[j].kind = "generation"
         /\ calls[j].service = config.generator.llmService
         /\ calls[j].model = config.generator.model
         /\ calls[j].config = config.generator.config
    ELSE /\ calls[j].kind = "review"
         /\ config.reviewer.set =>
              /\ calls[j].service = config.reviewer.llmService
              /\ calls[j].model = config.reviewer.model
              /\ calls[j].config = config.reviewer.config
         /\ ~config.reviewer.set =>
              /\ calls[j].service = config.generator.llmService
              /\ calls[j].model = config.generator.model
              /\ calls[j].config = config.generator.config

\* A second review call was sent to the configured reviewer.
C15_Witness ==
  /\ Len(calls) = 3
  /\ config.reviewer.set
  /\ calls[3].service = "reviewerService"
  /\ calls[3].model = "gpt-reviewer"

----------------------------------------------------------------------------
(* Construction: new StructuredAgent(config) and LLMFactory.create.        *)

\* The configuration of the agent whose run calls are not followed.
FrozenConfig ==
  [generator |-> Generator, reviewer |-> NoReviewer,
   inputSchema |-> ObjectSchema("input"), outputSchema |-> ObjectSchema("result"),
   maxIterations |-> NotSet]

\* { type: "invalid-type" }: a schema description that does not compile.
InvalidSchema == [kind |-> "invalid-type", key |-> ""]

DeepSeekBaseURL == "https://api.deepseek.com"

\* A value given as llmService, by what the factory can observe of it: its
\* class (instanceof), whether it has a complete function, the provider
\* members it has, and the base URL it was configured with.
Client(class, complete, chat, messages, models, legacy, baseURL) ==
  [nullish |-> FALSE, class |-> class, complete |-> complete,
   chatCompletionsCreate |-> chat, messagesCreate |-> messages,
   modelsGenerateContent |-> models, getGenerativeModel |-> legacy,
   baseURL |-> baseURL]

\* null or undefined given as llmService
Nullish(which) ==
  [nullish |-> TRUE, class |-> which, complete |-> FALSE,
   chatCompletionsCreate |-> FALSE, messagesCreate |-> FALSE,
   modelsGenerateContent |-> FALSE, getGenerativeModel |-> FALSE, baseURL |-> ""]

Classes == {"Object", "OpenAI", "Anthropic", "GoogleGenAI"}

\* An instance of a provider class has the members of that class; any
\* object may have further members.

Instances ==
  {Nullish("null"), Nullish("undefined")} \cup
  {inst \in {Client(c, k, a, b, g, l, u) :
               c \in Classes, k \in BOOLEAN, a \in BOOLEAN, b \in BOOLEAN,
               g \in BOOLEAN, l \in BOOLEAN, u \in {"", DeepSeekBaseURL}} :
     /\ inst.baseURL # "" => inst.class = "OpenAI"
     /\ inst.class = "OpenAI" => inst.chatCompletionsCreate
     /\ inst.class = "Anthropic" => inst.messagesCreate
     /\ inst.class = "GoogleGenAI" => inst.modelsGenerateContent}

\* class MockILLMService implements ILLMService
MockService == Client("Object", TRUE, FALSE, FALSE, FALSE, FALSE, "")

\* {}
EmptyObject == Client("Object", FALSE, FALSE, FALSE, FALSE, FALSE, "")

\* config.reviewer, when supplied, is an object holding an llmService.
ReviewerInstances ==
  {MockService, EmptyObject, Nullish("null"),
   Client("Anthropic", FALSE, FALSE, TRUE, FALSE, FALSE, "")}

ReviewerOptions ==
  {[set |-> FALSE, llmService |-> Nullish("undefined")]} \cup
  {[set |-> TRUE, llmService |-> inst] : inst \in ReviewerInstances}

ConstructorConfigs ==
  [inputSchema : {ObjectSchema("input"), InvalidSchema},
   outputSchema : {ObjectSchema("result"), InvalidSchema},
   generator : {[llmService |-> inst] : inst \in Instances},
   reviewer : ReviewerOptions]

\* The error ajv.compile throws on an invalid schema.
AjvCompileError == [name |-> "Error", message |-> "schema is invalid"]

WrappedError(name, message, context) ==
  [name |-> name, message |-> message, context |-> context]

compileNeverFails(schema) ==
  [threw |-> FALSE, error |-> NoError, validator |-> schema]

\* SchemaValidator.compile: the compiled validator, or InvalidInputSchemaError
\* wrapping the compiler's error.
compile(schema) ==
  IF schema.kind = "invalid-type"
  THEN [threw |-> TRUE,
        error |-> WrappedError("InvalidInputSchemaError",
                               "Invalid JSON Schema provided", AjvCompileError),
        validator |-> schema]
  ELSE [threw |-> FALSE, error |-> NoError, validator |-> schema]

\* What LLMFactory.create returns: the instance itself (adapter "none") or
\* an adapter holding it as its client.
Service(adapterName, instance) == [adapter |-> adapterName, client |-> instance]

NoService == Service("", Nullish("undefined"))

Created(service) == [threw |-> FALSE, error |-> NoError, service |-> service]

CreateThrew(e) == [threw |-> TRUE, error |-> e, service |-> NoService]

\* typeof instance.complete === "function"
isILLMService(instance) == instance.complete

\* instance?.chat?.completions?.create !== undefined
isOpenAI(instance) == instance.chatCompletionsCreate

\* instance?.messages?.create !== undefined
isAnthropic(instance) == instance.messagesCreate

\* instance?.models?.generateContent !== undefined ||
\* instance?.getGenerativeModel !== undefined
isGoogleGenAI(instance) ==
  instance.modelsGenerateContent \/ instance.getGenerativeModel

\* The provider checks of LLMFactory.create, in the order of the code.
createAdapter(instance) ==
  IF instance.class = "OpenAI" THEN Created(Service("OpenAIAdapter", instance))
  ELSE IF instance.class = "Anthropic" THEN Created(Service("AnthropicAdapter", instance))
  ELSE IF instance.class = "GoogleGenAI" THEN Created(Service("GoogleGenAIAdapter", instance))
  ELSE IF isOpenAI(instance) THEN Created(Service("OpenAIAdapter", instance))
  ELSE IF isAnthropic(instance) THEN Created(Service("AnthropicAdapter", instance))
  ELSE IF isGoogleGenAI(instance) THEN Created(Service("GoogleGenAIAdapter", instance))
  ELSE CreateThrew([name |-> "Error",
                    message |-> "Unknown LLM instance type provided."])

createChecksProvidersFirst(instance) ==
  IF instance.nullish
  THEN CreateThrew([name |-> "TypeError",
                    message |-> "Cannot read properties of " \o instance.class])
  ELSE IF ~createAdapter(instance).threw THEN createAdapter(instance)
       ELSE IF isILLMService(instance) THEN Created(Service("none", instance))
            ELSE createAdapter(instance)

\* LLMFactory.create(instance).  Reading instance.complete of null or
\* undefined throws a TypeError.
create(instance) ==
  IF instance.nullish
  THEN CreateThrew([name |-> "TypeError",
                    message |-> "Cannot read properties of " \o instance.class])
  ELSE IF isILLMService(instance) THEN Created(Service("none", instance))
       ELSE createAdapter(instance)

\* The outcome of the constructor: the agent's fields, or the error thrown;
\* created lists the instances given to LLMFactory.create.
Construction(pcv, cfg, inV, outV, gen, rev, e, made) ==
  [pc |-> pcv, config |-> cfg, inputValidator |-> inV, outputValidator |-> outV,
   generatorService |-> gen, reviewerService |-> rev, error |-> e,
   created |-> made]

NotCompiled == [kind |-> "", key |-> ""]

ConstructorThrew(cfg, e, made) ==
  Construction("threw", cfg, NotCompiled, NotCompiled, NoService, NoService, e, made)

\* constructor(config), lines 230-250
Construct ==
  /\ ctor.pc = "new"
  /\ LET cfg == ctor.config
         inV == compile(cfg.inputSchema)
         outV == compile(cfg.outputSchema)
         gen == create(cfg.generator.llmService)
         rev == create(cfg.reviewer.llmService)
     IN ctor' =
          IF inV.threw
          THEN ConstructorThrew(cfg,
                 WrappedError("InvalidInputSchemaError",
                              "Failed to compile input schema", inV.error), <<>>)
          ELSE IF outV.threw
          THEN ConstructorThrew(cfg,
                 WrappedError("InvalidOutputSchemaError",
                              "Failed to compile output schema", outV.error), <<>>)
          ELSE IF gen.threw
          THEN ConstructorThrew(cfg, gen.error, <<cfg.generator.llmService>>)
          ELSE IF ~cfg.reviewer.set
          THEN Construction("constructed", cfg, inV.validator, outV.validator,
                            gen.service, NoService, NoError,
                            <<cfg.generator.llmService>>)
          ELSE IF rev.threw
          THEN ConstructorThrew(cfg, rev.error,
                 <<cfg.generator.llmService, cfg.reviewer.llmService>>)
          ELSE Construction("constructed", cfg, inV.validator, outV.validator,
                            gen.service, rev.service, NoError,
                            <<cfg.generator.llmService, cfg.reviewer.llmService>>)
  /\ UNCHANGED <<config, validatorErrors, runVars, self, parked, adapter>>

InitConstruction ==
  /\ config = FrozenConfig
  /\ RunIdle
  /\ self = 1
  /\ parked = NoLocals
  /\ adapter = NoAdapterCall
  /\ \E cfg \in ConstructorConfigs :
       ctor = Construction("new", cfg, NotCompiled, NotCompiled, NoService,
                           NoService, NoError, <<>>)

NextConstruction == Construct

SpecConstruction == InitConstruction /\ [][NextConstruction]_vars

Compiles(schema) == schema.kind # "invalid-type"

ConstructorDone == ctor.pc \in {"constructed", "threw"}

\* C16: construction fails with InvalidInputSchema when the input schema
\* does not compile and with InvalidOutputSchema when only the output schema
\* does not; each wraps the validator's compile failure; the input schema
\* goes first, and in both cases nothing is given to the factory.
C16_SchemaCompileErrors ==
  ConstructorDone =>
    /\ ~Compiles(ctor.config.inputSchema) =>
         /\ ctor.pc = "threw"
         /\ ctor.error.name = "InvalidInputSchemaError"
         /\ ctor.error.context.name = "InvalidInputSchemaError"
         /\ ctor.error.context.context = AjvCompileError
         /\ ctor.created = <<>>
    /\ (Compiles(ctor.config.inputSchema) /\ ~Compiles(ctor.config.outputSchema)) =>
         /\ ctor.pc = "threw"
         /\ ctor.error.name = "InvalidOutputSchemaError"
         /\ ctor.error.context.name = "InvalidInputSchemaError"
         /\ ctor.error.context.context = AjvCompileError
         /\ ctor.created = <<>>
    /\ (Compiles(ctor.config.inputSchema) /\ Compiles(ctor.config.outputSchema)) =>
         /\ ctor.error.name \notin {"InvalidInputSchemaError", "InvalidOutputSchemaError"}
         /\ ctor.created # <<>>

\* Neither schema compiles and the generator is a usable service.
C16_Witness ==
  /\ ctor.pc = "threw"
  /\ ctor.error.name = "InvalidInputSchemaError"
  /\ ~Compiles(ctor.config.outputSchema)
  /\ ctor.config.generator.llmService = MockService

\* C18: for every instance that has a complete function the factory returns
\* that very instance, whatever provider client it also looks like; it is
\* never wrapped in an adapter.
C18_ServiceIsReturnedUnchanged ==
  (ctor.pc = "constructed" /\ ctor.config.generator.llmService.complete) =>
    /\ ctor.generatorService.adapter = "none"
    /\ ctor.generatorService.client = ctor.config.generator.llmService
    /\ (ctor.config.reviewer.set /\ ctor.config.reviewer.llmService.complete) =>
         ctor.reviewerService = Service("none", ctor.config.reviewer.llmService)

\* An OpenAI client that also has a complete function is used as it is.
C18_Witness ==
  /\ ctor.pc = "constructed"
  /\ ctor.config.generator.llmService.class = "OpenAI"
  /\ ctor.config.generator.llmService.chatCompletionsCreate
  /\ ctor.config.generator.llmService.complete
  /\ ctor.generatorService.adapter = "none"

\* C19 as claimed: an OpenAI client yields an OpenAIAdapter, an OpenAI
\* client configured with the DeepSeek base URL a DeepSeekAdapter, an
\* Anthropic client an AnthropicAdapter, a GoogleGenAI client a
\* GoogleGenAIAdapter.
C19_AdapterByClientKind ==
  LET inst == ctor.config.generator.llmService
  IN (ctor.pc = "constructed" /\ ~inst.complete) =>
       /\ (inst.class = "OpenAI" /\ inst.baseURL = "") =>
            ctor.generatorService.adapter = "OpenAIAdapter"
       /\ (inst.class = "OpenAI" /\ inst.baseURL = DeepSeekBaseURL) =>
            ctor.generatorService.adapter = "DeepSeekAdapter"
       /\ inst.class = "Anthropic" =>
            ctor.generatorService.adapter = "AnthropicAdapter"
       /\ inst.class = "GoogleGenAI" =>
            ctor.generatorService.adapter = "GoogleGenAIAdapter"

\* No adapter matches the instance: it is null or undefined, or it has no
\* complete function, is of no provider class and has no provider member.
MatchesNoAdapter(inst) ==
  \/ inst.nullish
  \/ /\ ~inst.complete
     /\ inst.class = "Object"
     /\ ~inst.chatCompletionsCreate
     /\ ~inst.messagesCreate
     /\ ~inst.modelsGenerateContent
     /\ ~inst.getGenerativeModel

\* The names of the library's errors (subclasses of StructuredAgentError).
LibraryErrors ==
  {"InvalidInputSchemaError", "InvalidOutputSchemaError", "SchemaValidationError",
   "MaxIterationsExceededError", "LLMExecutionError"}

\* C20 as claimed: when the generator instance matches no adapter (null and
\* undefined included), construction fails with an error of the library's
\* taxonomy, of LLMExecution kind, never with a generic Error or a TypeError.
C20_UnknownBackendIsTyped ==
  ( /\ ConstructorDone
    /\ Compiles(ctor.config.inputSchema)
    /\ Compiles(ctor.config.outputSchema)
    /\ MatchesNoAdapter(ctor.config.generator.llmService) ) =>
      /\ ctor.pc = "threw"
      /\ ctor.error.name \in LibraryErrors
      /\ ctor.error.name = "LLMExecutionError"

----------------------------------------------------------------------------
(* The adapters: complete(params) of each backend adapter.                  *)

Adapters == {"OpenAIAdapter", "DeepSeekAdapter", "AnthropicAdapter", "GoogleGenAIAdapter"}

\* An optional string: a member that is null or undefined, or a string.
None == [set |-> FALSE, text |-> ""]

Some(text) == [set |-> TRUE, text |-> text]

\* JavaScript truthiness of an optional string
Truthy(opt) == opt.set /\ opt.text # ""

\* ChatMessage
Message(role, content) == [role |-> role, content |-> content]

MessageLists ==
  {<<Message("system", "instructions"), Message("user", "input")>>,
   <<Message("user", "input")>>,
   <<Message("user", "input"), Message("system", "instructions"),
     Message("assistant", "previous")>>,
   <<Message("system", "instructions"), Message("user", "input"),
     Message("system", "more instructions")>>}

\* params of complete; outputFormat tells whether a target schema is given.
Params == [messages : MessageLists, model : {"test-model"}, outputFormat : BOOLEAN]

findLastIndex(messages, role, k) ==
  IF \E j \in k..Len(messages) : messages[j].role = role
  THEN CHOOSE j \in k..Len(messages) :
         /\ messages[j].role = role
         /\ \A m \in (j + 1)..Len(messages) : messages[m].role # role
  ELSE 0

RECURSIVE findIndex(_, _, _)
\* messages.findIndex(m => m.role === role), from position k; 0 for -1
findIndex(messages, role, k) ==
  IF k > Len(messages) THEN 0
  ELSE IF messages[k].role = role THEN k
       ELSE findIndex(messages, role, k + 1)

\* params.messages.find((m) => m.role === "system")?.content
systemContent(messages) ==
  IF findIndex(messages, "system", 1) = 0 THEN None
  ELSE Some(messages[findIndex(messages, "system", 1)].content)

\* params.messages.filter((m) => m.role !== "system")
withoutSystem(messages) == SelectSeq(messages, LAMBDA m : m.role # "system")

\* The text DeepSeekAdapter appends for the target schema.
schemaInstruction == "\n\nYou must output a valid JSON object matching this schema:\n{}"

\* Message objects and the arrays that list them: objects[n] is the content
\* of object n, caller lists the objects of the caller's params.messages,
\* working those of the array the adapter builds its request from.
Heap(objects, caller, working) ==
  [objects |-> objects, caller |-> caller, working |-> working]

\* The messages an array lists.
deref(objects, array) == [j \in 1..Len(array) |-> objects[array[j]]]

embedSchemaInPlace(messages) ==
  LET k == findIndex(messages, "system", 1)
      ids == [j \in 1..Len(messages) |-> j]
  IN IF k # 0
     THEN Heap([messages EXCEPT ![k] = Message(messages[k].role,
                                              messages[k].content \o schemaInstruction)],
               ids, ids)
     ELSE Heap(Append(messages, Message("system", schemaInstruction)),
               <<Len(messages) + 1>> \o ids, <<Len(messages) + 1>> \o ids)

\* DeepSeekAdapter with a target schema: `[...params.messages]` is a new
\* array listing the caller's objects; the schema instruction goes into a
\* new object that replaces the first system message in the new array, or
\* into a new system message put at the front of the new array.
copyWithSchema(messages) ==
  LET k == findIndex(messages, "system", 1)
      ids == [j \in 1..Len(messages) |-> j]
  IN IF k # 0
     THEN Heap(Append(messages, Message(messages[k].role,
                                        messages[k].content \o schemaInstruction)),
               ids, [ids EXCEPT ![k] = Len(messages) + 1])
     ELSE Heap(Append(messages, Message("system", schemaInstruction)),
               ids, <<Len(messages) + 1>> \o ids)

\* The messages DeepSeekAdapter sends when a target schema is given.
embedSchema(messages) ==
  deref(copyWithSchema(messages).objects, copyWithSchema(messages).working)

\* The caller's params.messages once the adapter has built its request:
\* the other adapters only read it (find, filter, map).
callerMessages(kind, params) ==
  IF kind = "DeepSeekAdapter" /\ params.outputFormat
  THEN deref(copyWithSchema(params.messages).objects,
             copyWithSchema(params.messages).caller)
  ELSE params.messages

\* What the adapter gives to the provider client: the messages, the system
\* text given apart from them, and whether the provider's own
\* structured-output option is set.
Request(messages, system, structured) ==
  [messages |-> messages, system |-> system, structured |-> structured]

NoRequest == Request(<<>>, None, FALSE)

Sent(kind, params) ==
  CASE kind = "OpenAIAdapter" ->
         Request(params.messages, None, params.outputFormat)
    [] kind = "DeepSeekAdapter" ->
         Request(IF params.outputFormat THEN embedSchema(params.messages)
                 ELSE params.messages, None, FALSE)
    [] kind = "AnthropicAdapter" ->
         Request(withoutSystem(params.messages), systemContent(params.messages),
                 params.outputFormat)
    [] kind = "GoogleGenAIAdapter" ->
         Request([k \in 1..Len(withoutSystem(params.messages)) |->
                    Message(IF withoutSystem(params.messages)[k].role = "assistant"
                            THEN "model" ELSE "user",
                            withoutSystem(params.messages)[k].content)],
                 systemContent(params.messages), params.outputFormat)

\* A provider response, by the members the adapters read: whether the first
\* choice / content block / candidate part exists, the refusal and content
\* of the message (the text of the block or part), the type of the block,
\* and the text accessor of a Google response.
Response(first, refusal, content, type, text) ==
  [shaped |-> TRUE, first |-> first, refusal |-> refusal, content |-> content,
   type |-> type, text |-> text]

\* A response without the member the adapter indexes (choices, content), or
\* no response object at all.
Malformed == [Response(FALSE, None, None, "", None) EXCEPT !.shaped = FALSE]

\* The provider call has not resolved.
NoResponse == Response(FALSE, None, None, "none", None)

Contents == {None, Some(""), Some(ValidText)}

Responses(kind) ==
  {Malformed} \cup
  CASE kind \in {"OpenAIAdapter", "DeepSeekAdapter"} ->
         {Response(f, r, c, "", None) :
            f \in BOOLEAN, r \in {None, Some("I cannot help with that")}, c \in Contents}
    [] kind = "AnthropicAdapter" ->
         {Response(f, None, c, "text", None) : f \in BOOLEAN, c \in Contents \ {None}}
           \cup {Response(TRUE, None, None, "tool_use", None)}
    [] kind = "GoogleGenAIAdapter" ->
         {Response(f, None, c, "", t) : f \in BOOLEAN, c \in Contents, t \in Contents}

\* Errors a provider client rejects with.
ProviderErrors ==
  {[name |-> "APIConnectionError", message |-> "Connection error."],
   [name |-> "TypeError", message |-> "fetch failed"]}

Unwrapped(message, originalError) ==
  [name |-> originalError.name, message |-> message, originalError |-> originalError]

\* new LLMExecutionError(message, originalError)
ExecutionError(message, originalError) ==
  [name |-> "LLMExecutionError", message |-> message, originalError |-> originalError]

NoOriginal == [name |-> "", message |-> ""]

\* How a call of complete ends.
Outcome(how, data, e) == [how |-> how, data |-> data, error |-> e]

NoExecutionError == [name |-> "", message |-> "", originalError |-> NoOriginal]

Pending == Outcome("pending", "", NoExecutionError)

ResolvedWith(data) == Outcome("resolved", data, NoExecutionError)

RejectedWith(e) == Outcome("rejected", "", e)

\* OpenAIAdapter and DeepSeekAdapter after the provider answered; the catch
\* block rethrows the adapter's own LLMExecutionError.
chatCompletionOutcome(response, emptyMessage) ==
  LET message == response.first
      content == IF message THEN response.content ELSE None
  IN IF message /\ Truthy(response.refusal)
     THEN RejectedWith(ExecutionError(
            "Model refused to generate response: " \o response.refusal.text, NoOriginal))
     ELSE IF ~Truthy(content)
          THEN RejectedWith(ExecutionError(emptyMessage, NoOriginal))
          ELSE ResolvedWith(content.text)

\* AnthropicAdapter after the provider answered; reading content.type of a
\* missing block throws a TypeError; the catch block wraps every error.
anthropicOutcome(response) ==
  IF ~response.first
  THEN RejectedWith(ExecutionError("Failed to execute Anthropic request",
         [name |-> "TypeError", message |-> "Cannot read properties of undefined"]))
  ELSE IF response.type # "text"
       THEN RejectedWith(ExecutionError("Failed to execute Anthropic request",
              [name |-> "LLMExecutionError",
               message |-> "Received non-text response from Anthropic"]))
       ELSE ResolvedWith(response.content.text)

\* GoogleGenAIAdapter after the provider answered: result.text, else the
\* text of the first part of the first candidate; when that is falsy but
\* the part has a text, the part's text is returned all the same.
googleOutcome(response) ==
  LET text == IF Truthy(response.text) THEN response.text
              ELSE IF response.first THEN response.content ELSE None
  IN IF ~Truthy(text)
     THEN IF response.first /\ response.content.set
          THEN ResolvedWith(response.content.text)
          ELSE RejectedWith(ExecutionError("Failed to execute Google GenAI request",
                 [name |-> "LLMExecutionError",
                  message |-> "Received empty response from Google GenAI"]))
     ELSE ResolvedWith(text.text)

\* catch (error) of each adapter for an error of the provider client
failureMessage(kind) ==
  CASE kind = "OpenAIAdapter" -> "Failed to execute OpenAI request"
    [] kind = "DeepSeekAdapter" -> "Failed to execute DeepSeek request"
    [] kind = "AnthropicAdapter" -> "Failed to execute Anthropic request"
    [] kind = "GoogleGenAIAdapter" -> "Failed to execute Google GenAI request"

\* The TypeError of reading a member of undefined.
ReadOfUndefined == [name |-> "TypeError", message |-> "Cannot read properties of undefined"]

\* complete after the provider call resolved; indexing a malformed response
\* throws a TypeError inside the try block, which the catch block wraps.
outcomeOf(kind, response) ==
  IF ~response.shaped
  THEN RejectedWith(ExecutionError(failureMessage(kind), ReadOfUndefined))
  ELSE CASE kind = "OpenAIAdapter" ->
              chatCompletionOutcome(response, "Received empty response from LLM")
         [] kind = "DeepSeekAdapter" ->
              chatCompletionOutcome(response, "Received empty response from DeepSeek")
         [] kind = "AnthropicAdapter" -> anthropicOutcome(response)
         [] kind = "GoogleGenAIAdapter" -> googleOutcome(response)

\* One call of complete: the adapter, the params given and the caller's
\* messages array as it is now, the request sent, the provider's response
\* and the outcome.
AdapterCall(pcv, kind, params, messages, sent, response, outcome) ==
  [pc |-> pcv, kind |-> kind, params |-> params, messages |-> messages,
   sent |-> sent, response |-> response, outcome |-> outcome]

NoParams == [messages |-> <<>>, model |-> "", outputFormat |-> FALSE]

\* complete(params) up to the await of the provider call
Complete(kind, params) ==
  /\ adapter.pc = "idle"
  /\ adapter' = AdapterCall("awaiting", kind, params, callerMessages(kind, params),
                            Sent(kind, params), NoResponse, Pending)
  /\ UNCHANGED <<config, validatorErrors, runVars, self, parked, ctor>>

\* the provider call resolves with response
ProviderResolves(response) ==
  /\ adapter.pc = "awaiting"
  /\ response \in Responses(adapter.kind)
  /\ adapter' = [adapter EXCEPT !.pc = "done", !.response = response,
                                !.outcome = outcomeOf(adapter.kind, response)]
  /\ UNCHANGED <<config, validatorErrors, runVars, self, parked, ctor>>

\* the provider call rejects with e
ProviderRejects(e) ==
  /\ adapter.pc = "awaiting"
  /\ adapter' = [adapter EXCEPT !.pc = "done",
                   !.outcome = RejectedWith(ExecutionError(failureMessage(adapter.kind), e))]
  /\ UNCHANGED <<config, validatorErrors, runVars, self, parked, ctor>>

InitAdapters ==
  /\ config = FrozenConfig
  /\ RunIdle
  /\ self = 1
  /\ parked = NoLocals
  /\ ctor = NoConstruction
  /\ adapter = AdapterCall("idle", "", NoParams, <<>>, NoRequest, NoResponse, Pending)

AllResponses == UNION {Responses(kind) : kind \in Adapters}

NextAdapters ==
  \/ \E kind \in Adapters, params \in Params : Complete(kind, params)
  \/ \E response \in AllResponses : ProviderResolves(response)
  \/ \E e \in ProviderErrors : ProviderRejects(e)

SpecAdapters == InitAdapters /\ [][NextAdapters]_vars

\* The text a response carries for the adapter, empty when it carries none.
TextOf(kind, response) ==
  IF kind = "GoogleGenAIAdapter" /\ Truthy(response.text) THEN response.text.text
  ELSE IF response.first /\ response.content.set THEN response.content.text
       ELSE ""

\* The response is a refusal, or has no content, or has empty content.
RefusalOrEmpty(kind, response) ==
  \/ response.first /\ Truthy(response.refusal)
  \/ TextOf(kind, response) = ""

\* C17 as claimed: no adapter resolves complete with an empty text; for a
\* response that is a refusal, has no content or has empty content,
\* complete rejects with an LLMExecutionError.
C17_NoEmptySuccess ==
  adapter.pc = "done" =>
    /\ adapter.outcome.how = "resolved" => adapter.outcome.data # ""
    /\ (adapter.response # NoResponse
        /\ RefusalOrEmpty(adapter.kind, adapter.response)) =>
         /\ adapter.outcome.how = "rejected"
         /\ adapter.outcome.error.name = "LLMExecutionError"

----------------------------------------------------------------------------
(* Two run calls on one agent, interleaved at their awaits.                *)

\* Retry budget of the agent on which two run calls interleave.
MaxConcurrentBudget == 1

ConcurrentConfigs ==
  {cfg \in Configs :
     /\ cfg.maxIterations = Set(MaxConcurrentBudget)
     /\ cfg.reviewer = Reviewer
     /\ cfg.inputSchema = ObjectSchema("input")
     /\ cfg.outputSchema = ObjectSchema("result")}

\* The arguments and locals of the run call that is executing.
Locals ==
  [inputJson |-> inputJson, ref |-> ref, pc |-> pc, i |-> i,
   currentJson |-> currentJson, validationResult |-> validationResult,
   history |-> history, metadata |-> metadata, calls |-> calls,
   replies |-> replies, result |-> result, error |-> error]

ResumedWithSharedHistory(own, other) ==
  [own EXCEPT !.history = other.history, !.metadata = other.metadata]

\* What a call continues with after its await: inputJson, ref, history,
\* metadata, currentJson, validationResult and i are parameters and locals
\* of the call, none is a field of the agent.
Resumed(own, other) == own

\* The executing call is suspended at its await (or has ended, or has not
\* started) and the other call gets the thread.
Switch ==
  /\ LET next == Resumed(parked, Locals)
     IN /\ inputJson' = next.inputJson
        /\ ref' = next.ref
        /\ pc' = next.pc
        /\ i' = next.i
        /\ currentJson' = next.currentJson
        /\ validationResult' = next.validationResult
        /\ history' = next.history
        /\ metadata' = next.metadata
        /\ calls' = next.calls
        /\ replies' = next.replies
        /\ result' = next.result
        /\ error' = next.error
  /\ parked' = Locals
  /\ self' = IF self = 1 THEN 2 ELSE 1
  /\ UNCHANGED <<config, validatorErrors, ctor, adapter>>

InitConcurrent ==
  /\ config \in ConcurrentConfigs
  /\ RunIdle
  /\ self = 1
  /\ parked = NoLocals
  /\ ctor = NoConstruction
  /\ adapter = NoAdapterCall

NextConcurrent ==
  \/ Next
  \/ Switch

SpecConcurrent == InitConcurrent /\ [][NextConcurrent]_vars

\* Indices of the backend calls of a run call that answered with a text.
AnsweredIn(locals) ==
  SelectSeq([j \in 1..Len(locals.replies) |-> j],
            LAMBDA j : locals.replies[j].kind = "resolved")

PayloadIn(locals, j) ==
  IF JSONparse(locals.replies[j].data).threw
  THEN JString(locals.replies[j].data)
  ELSE JSONparse(locals.replies[j].data).value

LastAnsweredBefore(locals, j) ==
  CHOOSE k \in 1..(j - 1) :
    /\ locals.replies[k].kind = "resolved"
    /\ \A m \in (k + 1)..(j - 1) : locals.replies[m].kind = "rejected"

\* The history, the metadata and the requests of a run call that runs
\* alone, as its input and the answers of its backend calls determine them.
HistoryAlone(locals) ==
  [h \in 1..Len(AnsweredIn(locals)) |->
     [step |-> LabelOfCall(AnsweredIn(locals)[h]),
      result |-> PayloadIn(locals, AnsweredIn(locals)[h])]]

MetadataAlone(locals) ==
  [h \in 1..Len(AnsweredIn(locals)) |->
     [provider |-> locals.replies[AnsweredIn(locals)[h]].meta.provider,
      model |-> locals.replies[AnsweredIn(locals)[h]].meta.model,
      step |-> LabelOfCall(AnsweredIn(locals)[h]),
      validation |-> validateOutput(config.outputSchema,
                                    PayloadIn(locals, AnsweredIn(locals)[h]))]]

RequestAlone(locals, j) ==
  IF j = 1
  THEN [service |-> config.generator.llmService, model |-> config.generator.model,
        config |-> config.generator.config, kind |-> "generation",
        input |-> locals.inputJson]
  ELSE LET payload == PayloadIn(locals, LastAnsweredBefore(locals, j))
       IN [service |-> config.reviewer.llmService, model |-> config.reviewer.model,
           config |-> config.reviewer.config, kind |-> "review",
           originalInput |-> locals.inputJson, invalidJson |-> payload,
           errors |-> validateOutput(config.outputSchema, payload).errors]

\* Everything the run call holds and produces is what it would hold and
\* produce alone with the same input, ref and backend answers.
RunsAsAlone(locals) ==
  /\ locals.history = HistoryAlone(locals)
  /\ locals.metadata = MetadataAlone(locals)
  /\ \A j \in 1..Len(locals.calls) : locals.calls[j] = RequestAlone(locals, j)
  /\ locals.pc = "returned" =>
       /\ locals.result.output = PayloadIn(locals, Len(locals.replies))
       /\ locals.result.metadata = MetadataAlone(locals)
       /\ locals.result.ref = locals.ref
  /\ locals.pc # "returned" => locals.result = NoResult
  /\ (locals.pc = "threw" /\ locals.error.name = "MaxIterationsExceededError") =>
       locals.error.attempts = HistoryAlone(locals)
  /\ (locals.pc = "threw" /\ locals.error.name # "MaxIterationsExceededError") =>
       \/ locals.replies = <<>> /\ locals.error.name = "SchemaValidationError"
       \/ /\ locals.replies # <<>>
          /\ locals.replies[Len(locals.replies)].kind = "rejected"
          /\ locals.error = locals.replies[Len(locals.replies)].error

----------------------------------------------------------------------------
(* The order of the steps of one run call.                                 *)

\* The number of backend calls issued and not yet completed.
InFlight == Len(calls) - Len(replies)

ReviewRounds == IF maxIterations > 0 THEN maxIterations ELSE 0

\* C22 as claimed: run goes Init -> ValidatingInput -> Generating ->
\* ValidatingOutput -> (Done | Reviewing -> ValidatingOutput | Exhausted).
\* A review call is made only after a validation found the payload
\* invalid; every review call that is followed by another review call or by
\* exhaustion answered with a payload that was validated; run returns only
\* after a validation found the payload valid; run is exhausted only after
\* a validation found the payload of the last of exactly budget review
\* calls invalid.
C22_TransitionsOfRun ==
  /\ pc \in {"idle", "awaitGeneration", "awaitReview", "returned", "threw"}
  /\ \A j \in 2..Len(calls) : calls[j].kind = "review" /\ FailedValidation(j - 1)
  /\ \A j \in 2..Len(replies) :
       (Len(calls) > j \/ RaisedMaxIterations) =>
         /\ IsResolved(j)
         /\ \E h \in 1..Len(metadata) :
              /\ metadata[h].step = LabelOfCall(j)
              /\ history[h].result = PayloadOf(j)
              /\ metadata[h].validation = validateOutput(config.outputSchema, PayloadOf(j))
  /\ pc = "returned" => PassedValidation(Len(replies))
  /\ RaisedMaxIterations =>
       /\ FailedValidation(Len(replies))
       /\ Len(replies) = ReviewRounds + 1

\* C23 as claimed: in every execution of run the number of backend calls is
\* at most budget+1, and at most one of them is a generation call.
C23_CallsWithinBudget ==
  /\ Len(calls) <= maxIterations + 1
  /\ \A j, k \in 1..Len(calls) :
       (calls[j].kind = "generation" /\ calls[k].kind = "generation") => j = k

\* C23, amended: in every execution of run, those that end in an error
\* included, the number of backend calls is at most max(budget, 0) + 1: the
\* generation call is made whatever the budget, it is the first call and
\* the only generation call, and at most max(budget, 0) review calls follow.
C23_CallsWithinRounds ==
  /\ Len(calls) <= ReviewRounds + 1
  /\ \A j \in 1..Len(calls) : calls[j].kind = "generation" <=> j = 1
  /\ (Started /\ Accepts(config.inputSchema, inputJson)) => Len(calls) >= 1

\* run ended in an error after the generation and every review round the
\* budget allows, one of which threw an error that was not raised.
C23_Witness ==
  /\ pc = "threw"
  /\ maxIterations >= 2
  /\ Len(calls) = maxIterations + 1
  /\ \E j \in 2..Len(replies) : IsRejected(j) /\ replies[j].error = OtherError

----------------------------------------------------------------------------
(* Termination of run when every backend call completes.                   *)

\* A backend call that is awaited resolves or rejects.
BackendCompletes ==
  \/ \E text \in Texts : GenerationResolved(text)
  \/ \E e \in BackendErrors : GenerationRejected(e)
  \/ \E text \in Texts : ReviewResolved(text)
  \/ \E e \in BackendErrors : ReviewRejected(e)

\* One run call on a backend whose every call eventually completes.
SpecLive == Init /\ [][Next]_vars /\ WF_vars(BackendCompletes)

Terminated == pc \in {"returned", "threw"}

\* C24: if every backend call eventually completes, every run call that
\* was started eventually returns a result or raises an error, for every
\* budget; and a run call that was started and has not terminated is
\* waiting for a backend call to complete.
C24_RunTerminates ==
  /\ Started ~> Terminated
  /\ [](Started /\ ~Terminated => InFlight = 1 /\ Len(calls) <= ReviewRounds + 1)

\* run returned at the last review round of the largest budget.
C24_Witness ==
  /\ pc = "returned"
  /\ maxIterations = MaxBudget
  /\ Len(replies) = MaxBudget + 1

----------------------------------------------------------------------------
\* C25: the request of every review call carries the payload of the most
\* recent call that answered (the generation, or the latest review that
\* produced a payload), the errors of validating exactly that payload, and
\* the input run was called with; while the call is awaited these are the
\* current payload and its validation outcome.
C25_RepairFromLatestAttempt ==
  /\ \A j \in 2..Len(calls) :
       LET k == LastAnswerBefore(j)
       IN /\ calls[j].kind = "review"
          /\ calls[j].invalidJson = PayloadOf(k)
          /\ calls[j].errors = validateOutput(config.outputSchema, PayloadOf(k)).errors
          /\ calls[j].errors # <<>>
          /\ calls[j].originalInput = inputJson
          /\ calls[j].originalInput = calls[1].input
  /\ pc = "awaitReview" =>
       /\ calls[Len(calls)].invalidJson = currentJson
       /\ calls[Len(calls)].invalidJson = history[Len(history)].result
       /\ calls[Len(calls)].errors = validationResult.errors

\* The second review call repairs the payload the first review answered,
\* which is not the payload of the generation.
C25_Witness ==
  /\ Len(calls) = 3
  /\ IsResolved(2)
  /\ PayloadOf(2) # PayloadOf(1)
  /\ calls[3].invalidJson = PayloadOf(2)
  /\ calls[3].errors # calls[2].errors

\* C26 as claimed: every review iteration that was started appended exactly
\* one attempt record; history and metadata have the same length and the
\* same step label at each position; the j-th metadata entry carries the
\* provenance the j-th backend call returned.
C26_OneRecordPerIteration ==
  /\ Len(history) = Len(metadata)
  /\ \A h \in 1..Len(history) : history[h].step = metadata[h].step
  /\ \A j \in 1..Len(replies) :
       \/ /\ j <= Len(metadata)
          /\ IsResolved(j)
          /\ metadata[j].step = LabelOfCall(j)
          /\ metadata[j].provider = replies[j].meta.provider
          /\ metadata[j].model = replies[j].meta.model
       \/ /\ j = Len(replies)
          /\ pc = "threw"
          /\ IsRejected(j)
          /\ error = replies[j].error

\* C27: in every metadata entry the validation outcome has errors exactly
\* when it is not valid, and then the list and each of its strings are not
\* empty.  A valid entry is the last one, and there is one exactly when run
\* returned: on return every earlier entry is invalid, and when run raises
\* MaxIterationsExceeded no recorded attempt was valid.
C27_ValidationOutcomes ==
  /\ \A h \in 1..Len(metadata) :
       LET v == metadata[h].validation
       IN /\ v.valid => DOMAIN v = {"valid"}
          /\ ~v.valid =>
               /\ DOMAIN v = {"valid", "errors"}
               /\ v.errors # <<>>
               /\ \A e \in 1..Len(v.errors) : v.errors[e] # ""
          /\ v.valid => h = Len(metadata) /\ pc = "returned"
  /\ pc = "returned" =>
       /\ result.metadata = metadata
       /\ metadata # <<>>
       /\ metadata[Len(metadata)].validation.valid
  /\ RaisedMaxIterations =>
       /\ metadata # <<>>
       /\ \A h \in 1..Len(metadata) : ~metadata[h].validation.valid
       /\ error.attempts = history

\* run returned at the second review; the two earlier attempts are invalid
\* for different reasons.
C27_Witness ==
  /\ pc = "returned"
  /\ Len(metadata) = 3
  /\ ~metadata[1].validation.valid
  /\ ~metadata[2].validation.valid
  /\ metadata[1].validation.errors # metadata[2].validation.errors

\* C28: with maxIterations configured as 0 or as a negative number the
\* budget is that number, not the default, and no review call is made: a
\* generation whose payload fails validation leads to MaxIterationsExceeded
\* after exactly one backend call with a history of the one generation
\* entry, and a generation whose payload is valid is returned.
C28_NoReviewWithoutBudget ==
  (config.maxIterations.set /\ config.maxIterations.value <= 0) =>
    /\ maxIterations = config.maxIterations.value
    /\ Len(calls) <= 1
    /\ pc # "awaitReview"
    /\ (replies # <<>> /\ FailedValidation(1)) =>
         /\ RaisedMaxIterations
         /\ Len(calls) = 1
         /\ Len(error.attempts) = 1
         /\ error.attempts[1] = [step |-> "generation", result |-> PayloadOf(1)]
    /\ (replies # <<>> /\ PassedValidation(1)) =>
         /\ pc = "returned"
         /\ result.output = PayloadOf(1)
         /\ Len(result.metadata) = 1

\* With maxIterations 0 the generation failed validation and run raised.
C28_Witness ==
  /\ config.maxIterations = Set(0)
  /\ RaisedMaxIterations
  /\ Len(calls) = 1

----------------------------------------------------------------------------
\* C29: every rejection of an adapter's complete is an LLMExecutionError:
\* when the provider client throws, the error is wrapped as originalError;
\* when the response lacks the members the adapter reads, the TypeError is
\* wrapped; a refusal and an empty content reported by OpenAIAdapter and
\* DeepSeekAdapter are LLMExecutionErrors.  No other error leaves complete.
C29_RejectionsAreLLMExecution ==
  adapter.pc = "done" =>
    /\ adapter.outcome.how \in {"resolved", "rejected"}
    /\ adapter.outcome.how = "rejected" =>
         /\ adapter.outcome.error.name = "LLMExecutionError"
         /\ adapter.outcome.error.message # ""
    /\ adapter.response = NoResponse =>
         /\ adapter.outcome.how = "rejected"
         /\ adapter.outcome.error.originalError \in ProviderErrors
    /\ adapter.response = Malformed =>
         /\ adapter.outcome.how = "rejected"
         /\ adapter.outcome.error.originalError.name = "TypeError"
    /\ ( /\ adapter.kind \in {"OpenAIAdapter", "DeepSeekAdapter"}
         /\ adapter.response \notin {NoResponse, Malformed}
         /\ RefusalOrEmpty(adapter.kind, adapter.response) ) =>
         adapter.outcome.how = "rejected"

\* GoogleGenAIAdapter wrapped the TypeError of a malformed response.
C29_Witness ==
  /\ adapter.pc = "done"
  /\ adapter.kind = "GoogleGenAIAdapter"
  /\ adapter.response = Malformed
  /\ adapter.outcome.error.name = "LLMExecutionError"
  /\ adapter.outcome.error.originalError.name = "TypeError"

\* C30: complete leaves the caller's messages array and its message objects
\* as they were given (same length, same order, same contents), while the
\* call is awaited and after it resolved or rejected; DeepSeekAdapter puts
\* the schema instruction into the messages it sends only.
C30_RequestIsNotModified ==
  adapter.pc \in {"awaiting", "done"} =>
    /\ adapter.messages = adapter.params.messages
    /\ (adapter.kind = "DeepSeekAdapter" /\ adapter.params.outputFormat) =>
         /\ adapter.sent.messages # adapter.params.messages
         /\ \E j \in 1..Len(adapter.sent.messages) :
              /\ adapter.sent.messages[j].role = "system"
              /\ adapter.sent.messages[j] \notin
                   {adapter.messages[k] : k \in 1..Len(adapter.messages)}

\* DeepSeekAdapter put a new system message in front of what it sent, and
\* the call failed.
C30_Witness ==
  /\ adapter.pc = "done"
  /\ adapter.kind = "DeepSeekAdapter"
  /\ adapter.params.outputFormat
  /\ adapter.outcome.how = "rejected"
  /\ Len(adapter.sent.messages) = Len(adapter.params.messages) + 1

----------------------------------------------------------------------------
\* The position of the first system message of a list, 0 when it has none.
FirstSystem(messages) ==
  IF \E j \in 1..Len(messages) : messages[j].role = "system"
  THEN CHOOSE j \in 1..Len(messages) :
         /\ messages[j].role = "system"
         /\ \A m \in 1..(j - 1) : messages[m].role # "system"
  ELSE 0

\* C31: DeepSeekAdapter never uses a structured-output option of the
\* provider.  With a target schema and a system message in the request, the
\* messages sent are those given, in their order, except that the content
\* of the first system message has the schema instruction appended; with a
\* target schema and no system message they are a new system message
\* holding the instruction followed by those given; without a target schema
\* they are those given.
C31_SchemaIsEmbeddedAsText ==
  (adapter.pc \in {"awaiting", "done"} /\ adapter.kind = "DeepSeekAdapter") =>
    LET given == adapter.params.messages
        sent == adapter.sent.messages
        k == FirstSystem(given)
    IN /\ ~adapter.sent.structured
       /\ ~adapter.sent.system.set
       /\ ~adapter.params.outputFormat => sent = given
       /\ (adapter.params.outputFormat /\ k # 0) =>
            /\ Len(sent) = Len(given)
            /\ sent[k].role = "system"
            /\ sent[k].content = given[k].content \o schemaInstruction
            /\ \A j \in 1..Len(given) : j # k => sent[j] = given[j]
       /\ (adapter.params.outputFormat /\ k = 0) =>
            /\ Len(sent) = Len(given) + 1
            /\ sent[1] = [role |-> "system", content |-> schemaInstruction]
            /\ \A j \in 1..Len(given) : sent[j + 1] = given[j]

\* The request has two system messages and a target schema; the call
\* resolved.
C31_Witness ==
  /\ adapter.pc = "done"
  /\ adapter.kind = "DeepSeekAdapter"
  /\ adapter.params.outputFormat
  /\ adapter.outcome.how = "resolved"
  /\ FirstSystem(adapter.params.messages) # 0
  /\ \E j \in (FirstSystem(adapter.params.messages) + 1)..Len(adapter.params.messages) :
       adapter.params.messages[j].role = "system"

----------------------------------------------------------------------------
(* The validator.                                                          *)

\* The validations a run has made: its input against the input schema and
\* the payload of every answer against the output schema.
Validated ==
  (IF Started THEN {[schema |-> config.inputSchema, data |-> inputJson]} ELSE {})
  \cup {[schema |-> config.outputSchema, data |-> PayloadOf(j)] :
          j \in {k \in 1..Len(replies) : IsResolved(k)}}

FaultOnLastAnswer ==
  /\ replies # <<>>
  /\ IsResolved(Len(replies))
  /\ ValidatorThrows(config.outputSchema, PayloadOf(Len(replies)))

\* C33: validateOutput never throws.  Every answer of the backend has its
\* outcome recorded: valid when the validator accepts the payload, invalid
\* with the formatted violations as the single error when the validator
\* raises SchemaValidation, invalid with the single error "Unknown
\* validation error" when the validator throws anything else.  A validator
\* fault does not abort run: the attempt is recorded in the history, the
\* next review call is issued with that error while budget remains, and
\* otherwise run raises MaxIterationsExceeded; after a valid input run
\* raises only MaxIterationsExceeded or the error of a rejected backend call.
C33_ValidateOutputNeverThrows ==
  /\ Len(metadata) = Len(ResolvedCalls)
  /\ \A h \in 1..Len(metadata) :
       LET p == PayloadOf(ResolvedCalls[h])
           s == config.outputSchema
           o == metadata[h].validation
       IN /\ Accepts(s, p) => o = [valid |-> TRUE]
          /\ Rejects(s, p) =>
               o = [valid |-> FALSE, errors |-> <<errorsText(Violations(s, p))>>]
          /\ ValidatorThrows(s, p) =>
               o = [valid |-> FALSE, errors |-> <<"Unknown validation error">>]
  /\ FaultOnLastAnswer =>
       /\ Len(history) = Len(metadata)
       /\ history[Len(history)].result = PayloadOf(Len(replies))
       /\ validationResult = [valid |-> FALSE, errors |-> <<"Unknown validation error">>]
       /\ \/ /\ pc = "awaitReview"
             /\ Len(calls) = Len(replies) + 1
             /\ calls[Len(calls)].errors = <<"Unknown validation error">>
             /\ Len(calls) <= maxIterations + 1
          \/ /\ RaisedMaxIterations
             /\ Len(calls) = Len(replies)
             /\ error.attempts = history
  /\ (InputSatisfiesSchema /\ pc = "threw") =>
       \/ RaisedMaxIterations
       \/ /\ replies # <<>>
          /\ IsRejected(Len(replies))
          /\ error = replies[Len(replies)].error

\* The output validator threw on the generation's payload, the attempt went
\* to review as a failed one, and the review's answer was returned.
C33_Witness ==
  /\ pc = "returned"
  /\ Len(metadata) = 2
  /\ ValidatorThrows(config.outputSchema, PayloadOf(1))
  /\ metadata[1].validation = [valid |-> FALSE, errors |-> <<"Unknown validation error">>]
  /\ calls[2].errors = <<"Unknown validation error">>
  /\ metadata[2].validation.valid

====
